---- MODULE Spec2Model ----
(***************************************************************************)
(* ss58-registry: the build-time registry compilation (build.rs, and the   *)
(* validator of the former proc-macro in src/lib.rs), the runtime facade   *)
(* over the compiled tables (address_format.rs, registry.rs) and the token *)
(* formatting (token.rs).                                                  *)
(*                                                                         *)
(* Strings are sequences of one-character strings; Option<T> is a sequence *)
(* of length 0 (None) or 1 (Some); Result<T, E> is a record with a field   *)
(* ok.                                                                     *)
(***************************************************************************)
EXTENDS Integers, Sequences, FiniteSets, TLC

\* ------------------------------------------------------------------ bounds

\* Longest registry document (number of records) the model compiles.
MaxRecords == 2
\* The largest Token.decimals of the token specification.
MaxDecimals == 40
\* The most records of a document of the token tables.
MaxTokenRecords == 2

\* ----------------------------------------------------------------- strings

\* The characters of the model with their byte values (ASCII): str's Ord is
\* the lexicographic order of the bytes.
AsciiTable ==
    << <<" ", 32>>, <<"+", 43>>, <<"-", 45>>,
       <<"0", 48>>, <<"1", 49>>, <<"2", 50>>, <<"3", 51>>, <<"4", 52>>,
       <<"5", 53>>, <<"6", 54>>, <<"7", 55>>, <<"8", 56>>, <<"9", 57>>,
       <<"A", 65>>, <<"B", 66>>, <<"N", 78>>, <<"P", 80>>, <<"_", 95>>,
       <<"a", 97>>, <<"b", 98>>, <<"n", 110>>, <<"p", 112>> >>

byte(c) == AsciiTable[CHOOSE i \in DOMAIN AsciiTable : AsciiTable[i][1] = c][2]

Digits == <<"0", "1", "2", "3", "4", "5", "6", "7", "8", "9">>

is_numeric(c) == \E i \in DOMAIN Digits : Digits[i] = c
to_digit(c) == (CHOOSE i \in DOMAIN Digits : Digits[i] = c) - 1
is_lowercase(c) == byte(c) \in 97 .. 122
is_uppercase(c) == byte(c) \in 65 .. 90
is_alphanumeric(c) == is_numeric(c) \/ is_lowercase(c) \/ is_uppercase(c)
is_whitespace(c) == c = " "
char(b) == AsciiTable[CHOOSE i \in DOMAIN AsciiTable : AsciiTable[i][2] = b][1]
to_ascii_uppercase(c) == IF is_lowercase(c) THEN char(byte(c) - 32) ELSE c
to_ascii_lowercase(c) == IF is_uppercase(c) THEN char(byte(c) + 32) ELSE c

\* Ordering of two strings: "Less", "Equal" or "Greater" (impl Ord for str).
RECURSIVE str_cmp(_, _)
str_cmp(s, t) ==
    IF s = <<>> /\ t = <<>> THEN "Equal"
    ELSE IF s = <<>> THEN "Less"
    ELSE IF t = <<>> THEN "Greater"
    ELSE IF byte(Head(s)) < byte(Head(t)) THEN "Less"
    ELSE IF byte(Head(s)) > byte(Head(t)) THEN "Greater"
    ELSE str_cmp(Tail(s), Tail(t))

\* Ordering of two integers (impl Ord for u16).
int_cmp(a, b) == IF a < b THEN "Less" ELSE IF a > b THEN "Greater" ELSE "Equal"

\* ------------------------------------------------ the registry document

\* Values of the JSON fields the model draws records from.
RegistryPrefixes == {0, 1, 46}
Networks == { <<>>, <<"a", "-", "b">>, <<"a", "_", "b">>, <<"a", " ", "b">> }
StandardAccounts == { <<>>, <<"Sr25519">>, <<"Schnorr">> }
DOT == <<"D", "O", "T">>
KSM == <<"K", "S", "M">>
SymbolLists == { <<DOT>> }
DecimalLists == { <<10>>, <<>> }

\* struct AccountType (display_name and website only feed the doc strings).
AccountTypes ==
    [prefix : RegistryPrefixes, network : Networks,
     standard_account : StandardAccounts,
     symbols : SymbolLists, decimals : DecimalLists]

\* The input file: text that is not JSON of the Registry shape, or a document.
Malformed == [valid |-> FALSE, registry |-> <<>>]
Documents ==
    {Malformed} \cup
    { [valid |-> TRUE, registry |-> d] :
        d \in UNION { [1..n -> AccountTypes] : n \in 0..MaxRecords } }

\* ------------------------------------------------------------- build.rs

Ok(v) == [ok |-> TRUE, val |-> v]
Err(e) == [ok |-> FALSE, err |-> e]

\* A validation failure: which return statement, at which record (1-based).
Failure(kind, at) == Err([kind |-> kind, at |-> at])

SigTypes == {"Sr25519", "Ed25519", "secp256k1", "*25519"}

\* Mutant: the check of the prefix dropped.
account_type_failure_no_prefix_check(account_type, used_prefixes, used_networks) ==
    IF account_type.network \in used_networks THEN "DuplicateNetwork"
    ELSE IF \E k \in DOMAIN account_type.network :
                is_whitespace(account_type.network[k])
        THEN "WhitespaceInNetwork"
    ELSE IF Len(account_type.decimals) # Len(account_type.symbols)
        THEN "SymbolDecimalMismatch"
    ELSE IF /\ account_type.standard_account # <<>>
            /\ account_type.standard_account[1] \notin SigTypes
        THEN "UnknownSignatureKind"
    ELSE "none"

\* Mutant: only more decimals than symbols count as a mismatch.
account_type_failure_more_decimals(account_type, used_prefixes, used_networks) ==
    IF account_type.prefix \in used_prefixes THEN "DuplicatePrefix"
    ELSE IF account_type.network \in used_networks THEN "DuplicateNetwork"
    ELSE IF \E k \in DOMAIN account_type.network :
                is_whitespace(account_type.network[k])
        THEN "WhitespaceInNetwork"
    ELSE IF Len(account_type.decimals) > Len(account_type.symbols)
        THEN "SymbolDecimalMismatch"
    ELSE IF /\ account_type.standard_account # <<>>
            /\ account_type.standard_account[1] \notin SigTypes
        THEN "UnknownSignatureKind"
    ELSE "none"

\* The body of the loop of Registry::is_valid: the failure the record runs
\* into, in the order of the checks, or "none".
account_type_failure(account_type, used_prefixes, used_networks) ==
    IF account_type.prefix \in used_prefixes THEN "DuplicatePrefix"
    ELSE IF account_type.network \in used_networks THEN "DuplicateNetwork"
    ELSE IF \E k \in DOMAIN account_type.network :
                is_whitespace(account_type.network[k])
        THEN "WhitespaceInNetwork"
    ELSE IF Len(account_type.decimals) # Len(account_type.symbols)
        THEN "SymbolDecimalMismatch"
    ELSE IF /\ account_type.standard_account # <<>>
            /\ account_type.standard_account[1] \notin SigTypes
        THEN "UnknownSignatureKind"
    ELSE "none"

\* The loop of Registry::is_valid from record i on.
RECURSIVE is_valid_loop(_, _, _, _)
is_valid_loop(registry, i, used_prefixes, used_networks) ==
    IF i > Len(registry) THEN Ok(<<>>)
    ELSE LET kind == account_type_failure(registry[i], used_prefixes, used_networks) IN
        IF kind # "none" THEN Failure(kind, i)
        ELSE is_valid_loop(registry, i + 1,
                           used_prefixes \cup {registry[i].prefix},
                           used_networks \cup {registry[i].network})

is_valid(registry) == is_valid_loop(registry, 1, {}, {})

\* str::trim_end_matches(is_not_alphanumeric)
RECURSIVE trim_right(_)
trim_right(s) ==
    IF s # <<>> /\ ~is_alphanumeric(s[Len(s)])
    THEN trim_right(SubSeq(s, 1, Len(s) - 1))
    ELSE s

\* Inflector's to_case_camel_like with the options of to_pascal_case
\* (new_word, last_char ' ', no separator, not inverted).
RECURSIVE to_case_camel_like(_, _, _, _, _)
to_case_camel_like(chars, new_word, last_char, found_real_char, result) ==
    IF chars = <<>> THEN result
    ELSE LET character == Head(chars)
             rest == Tail(chars) IN
        IF ~is_alphanumeric(character) /\ found_real_char
            THEN to_case_camel_like(rest, TRUE, last_char, found_real_char, result)
        ELSE IF ~found_real_char /\ ~is_alphanumeric(character)
            THEN to_case_camel_like(rest, new_word, last_char, found_real_char, result)
        ELSE IF is_numeric(character)
            THEN to_case_camel_like(rest, TRUE, last_char, TRUE,
                                    Append(result, character))
        ELSE IF \/ new_word
                \/ (is_lowercase(last_char) /\ is_uppercase(character)
                    /\ last_char # " ")
            THEN to_case_camel_like(rest, FALSE, last_char, TRUE,
                                    Append(result, to_ascii_uppercase(character)))
        ELSE to_case_camel_like(rest, new_word, character, TRUE,
                                Append(result, to_ascii_lowercase(character)))

to_pascal_case(s) == to_case_camel_like(trim_right(s), TRUE, " ", FALSE, <<>>)

\* AccountType::name: the identifier of the record's variant.
AccountType_name(account_type) ==
    to_pascal_case(account_type.network) \o <<"A", "c", "c", "o", "u", "n", "t">>

\* AccountType::is_reserved
AccountType_is_reserved(account_type) == account_type.standard_account = <<>>

\* The quote! variables of create_ss58_registry, all in document order.
prefix_of(r) == r.prefix
network_of(r) == r.network
\* Mutant: the names in reverse order, the numbers in document order.
create_ss58_registry_names_reversed(registry) ==
    [identifier |-> [i \in DOMAIN registry |-> AccountType_name(registry[i])],
     reserved_identifiers |->
        {i \in DOMAIN registry : AccountType_is_reserved(registry[i])},
     reserved_numbers |->
        {prefix_of(registry[i]) : i \in
            {i \in DOMAIN registry : AccountType_is_reserved(registry[i])}},
     count |-> Len(registry),
     number |-> [i \in DOMAIN registry |-> prefix_of(registry[i])],
     name |-> [i \in DOMAIN registry |->
                 network_of(registry[Len(registry) + 1 - i])]]

create_ss58_registry(registry) ==
    LET reserved == {i \in DOMAIN registry :
                        AccountType_is_reserved(registry[i])} IN
    [identifier |-> [i \in DOMAIN registry |-> AccountType_name(registry[i])],
     reserved_identifiers |-> reserved,
     reserved_numbers |-> {prefix_of(registry[i]) : i \in reserved},
     count |-> Len(registry),
     number |-> [i \in DOMAIN registry |-> prefix_of(registry[i])],
     name |-> [i \in DOMAIN registry |-> network_of(registry[i])]]


\* ------------------------------------- integers and their decimal text

\* u16::MAX
U16Max == 65535

\* The decimal digits of a natural number (Display for integers).
RECURSIVE to_string(_)
to_string(n) ==
    IF n < 10 THEN <<Digits[n + 1]>>
    ELSE Append(to_string(n \div 10), Digits[(n % 10) + 1])

\* The value of a non-empty run of digits, or -1 past u16::MAX (the checked
\* multiply and add of from_str_radix).
RECURSIVE checked_digits(_, _)
checked_digits(digits, acc) ==
    IF digits = <<>> THEN acc
    ELSE LET next == acc * 10 + to_digit(Head(digits)) IN
         IF next > U16Max THEN -1 ELSE checked_digits(Tail(digits), next)

\* str::parse::<u16>: an optional '+', then one digit or more, no overflow.
parse_u16(src) ==
    LET digits == IF src # <<>> /\ Head(src) = "+" THEN Tail(src) ELSE src IN
    IF digits = <<>> THEN Err("Empty")
    ELSE IF \E k \in DOMAIN digits : ~is_numeric(digits[k]) THEN Err("InvalidDigit")
    ELSE IF checked_digits(digits, 0) < 0 THEN Err("PosOverflow")
    ELSE Ok(checked_digits(digits, 0))

\* --------------------- the enum Ss58AddressFormat that build.rs generates
\* A value is a named variant (the i-th identifier) or Custom(n); gen is
\* what create_ss58_registry put into the template.

Known(i) == [tag |-> "Known", n |-> i]
Custom(n) == [tag |-> "Custom", n |-> n]

First(S) == CHOOSE i \in S : \A j \in S : i <= j

\* impl Display for Ss58AddressFormat (generated)
enum_fmt(gen, x) ==
    IF x.tag = "Known" THEN gen.name[x.n] ELSE to_string(x.n)

\* Ss58AddressFormat::all_names (generated)
enum_all_names(gen) == gen.name

\* Ss58AddressFormat::all (generated): ALL_SS58_ADDRESS_FORMATS
enum_all(gen) == [i \in 1..gen.count |-> Known(i)]

\* Ss58AddressFormat::is_custom (generated)
enum_is_custom(gen, x) == x.tag = "Custom"

\* Ss58AddressFormat::is_reserved (generated)
enum_is_reserved(gen, x) ==
    IF x.tag = "Known" THEN x.n \in gen.reserved_identifiers
    ELSE x.n \in gen.reserved_numbers

\* from_address_format (generated): the variant's number, or Custom's n
enum_from_address_format(gen, x) ==
    IF x.tag = "Known" THEN gen.number[x.n] ELSE x.n

\* impl From<u16> for Ss58AddressFormat (generated): the first arm that matches
enum_from_u16(gen, x) ==
    LET arms == {i \in DOMAIN gen.number : gen.number[i] = x} IN
    IF arms # {} THEN Known(First(arms)) ELSE Custom(x)

\* impl TryFrom<&str> for Ss58AddressFormat (generated)
enum_try_from_str(gen, x) ==
    LET arms == {i \in DOMAIN gen.name : gen.name[i] = x} IN
    IF arms # {} THEN Ok(Known(First(arms)))
    ELSE IF parse_u16(x).ok THEN Ok(Custom(parse_u16(x).val))
    ELSE Err("ParseError")


\* --------------------------------- the tables of registry_gen.rs
\* registry.rs includes registry_gen.rs, whose generator is not part of the
\* sources at hand: the tables are built as the specification describes them
\* (sorted by network; PREFIX_TO_INDEX sorted by prefix, indices from 0).

\* slice::sort_by (stable): insertion of each element, in order, after the
\* elements of the sorted part that are not greater.
\* The two orders: records by network name, (prefix, index) pairs by prefix.
by_network(r, q) == str_cmp(r.network, q.network)
by_prefix(a, b) == int_cmp(a[1], b[1])
cmp_by(order, a, b) ==
    IF order = "network" THEN by_network(a, b) ELSE by_prefix(a, b)

\* A stable sort: each element, in order, is inserted after the elements of
\* the sorted part that are not greater.
RECURSIVE insert_sorted(_, _, _)
insert_sorted(t, x, order) ==
    IF t = <<>> THEN <<x>>
    ELSE IF cmp_by(order, x, Head(t)) = "Less" THEN <<x>> \o t
    ELSE <<Head(t)>> \o insert_sorted(Tail(t), x, order)

RECURSIVE sort_by(_, _)
sort_by(s, order) ==
    IF s = <<>> THEN <<>>
    ELSE insert_sorted(sort_by(SubSeq(s, 1, Len(s) - 1), order),
                       s[Len(s)], order)

\* A variant of Ss58AddressFormatRegistry: its discriminant is the prefix.
Variant(account_type) == [discr |-> account_type.prefix]

\* The (symbol, decimals) pairs of a record, in declaration order.
symbol_decimals(account_type) ==
    [k \in 1 .. Len(account_type.symbols) |->
        <<account_type.symbols[k], account_type.decimals[k]>>]

\* The pairs of all records, record after record.
RECURSIVE all_symbol_decimals(_)
all_symbol_decimals(records) ==
    IF records = <<>> THEN <<>>
    ELSE symbol_decimals(Head(records)) \o all_symbol_decimals(Tail(records))

\* Deduplication: the first occurrence of every element, in order.
RECURSIVE dedup(_)
dedup(s) ==
    IF s = <<>> THEN <<>>
    ELSE LET before == dedup(SubSeq(s, 1, Len(s) - 1))
             last == s[Len(s)] IN
         IF \E i \in DOMAIN before : before[i] = last THEN before
         ELSE Append(before, last)

\* Mutant: a variant found by its symbol alone.
TokenVariant_by_symbol(table, pair) ==
    [token |-> (CHOOSE i \in DOMAIN table : table[i][1] = pair[1]) - 1]

\* A variant of TokenRegistry: its position among the unique pairs.
TokenVariant(table, pair) ==
    [token |-> (CHOOSE i \in DOMAIN table : table[i] = pair) - 1]

\* The prefix-run table: the walk over the sorted prefixes.  A run is closed
\* when the next element is not the predecessor plus one; the last run is
\* closed after the walk.  runs is the pair (RUN_STARTS, RUN_ENDS).
RECURSIVE run_walk(_, _, _, _, _)
run_walk(data, i, start, previous, runs) ==
    IF i > Len(data)
    THEN <<Append(runs[1], start), Append(runs[2], previous)>>
    ELSE IF data[i] = previous + 1
         THEN run_walk(data, i + 1, start, data[i], runs)
    ELSE run_walk(data, i + 1, data[i], data[i],
                  <<Append(runs[1], start), Append(runs[2], previous)>>)

\* Mutant: every element is a run of its own.
consecutive_runs_no_gap(data) ==
    <<data, data>>

consecutive_runs(data) ==
    IF data = <<>> THEN <<<<>>, <<>>>>
    ELSE run_walk(data, 2, data[1], data[1], <<<<>>, <<>>>>)

registry_gen(registry) ==
    LET sorted == sort_by(registry, "network")
        prefix_to_index ==
            sort_by([i \in DOMAIN sorted |-> <<sorted[i].prefix, i - 1>>],
                    "prefix")
        token_table == dedup(all_symbol_decimals(sorted))
        runs == consecutive_runs([i \in DOMAIN prefix_to_index |->
                                    prefix_to_index[i][1]]) IN
    [ALL_SS58_ADDRESS_FORMATS |-> [i \in DOMAIN sorted |-> Variant(sorted[i])],
     ALL_SS58_ADDRESS_FORMAT_NAMES |->
        [i \in DOMAIN sorted |-> network_of(sorted[i])],
     PREFIX_TO_INDEX |-> prefix_to_index,
     RUN_STARTS |-> runs[1],
     RUN_ENDS |-> runs[2],
     TOKEN_ATTRIBUTES |-> token_table,
     TOKENS |->
        [i \in DOMAIN sorted |->
            [k \in DOMAIN symbol_decimals(sorted[i]) |->
                TokenVariant(token_table, symbol_decimals(sorted[i])[k])]]]

\* Ss58AddressFormatRegistry::tokens of a variant: the list emitted for it.
tokens(gen, x) ==
    LET i == CHOOSE i \in DOMAIN gen.ALL_SS58_ADDRESS_FORMATS :
                gen.ALL_SS58_ADDRESS_FORMATS[i] = x IN
    gen.TOKENS[i]

\* TokenRegistry::attributes of a variant: (name, decimals)
TokenRegistry_attributes(gen, t) == gen.TOKEN_ATTRIBUTES[t.token + 1]

\* ------------------------------------ address_format.rs and registry.rs
\* Indices are Rust's, from 0: element idx of a table t is t[idx + 1].

\* slice::binary_search_by: Ok(index of a match) or Err(insertion point).
\* cmps[i] is the ordering of element i against the target, which the search
\* reads at the probed positions only.
RECURSIVE search(_, _, _)
search(cmps, left, right) ==
    IF left >= right THEN Err(left)
    ELSE LET mid == left + (right - left) \div 2
             cmp == cmps[mid + 1] IN
         IF cmp = "Less" THEN search(cmps, mid + 1, right)
         ELSE IF cmp = "Greater" THEN search(cmps, left, mid)
         ELSE Ok(mid)

binary_search_by(cmps) == search(cmps, 0, Len(cmps))

\* PREFIX_TO_INDEX.binary_search_by_key(&prefix, |(prefix, _)| *prefix)
lookup_prefix(gen, prefix) ==
    binary_search_by([i \in DOMAIN gen.PREFIX_TO_INDEX |->
                         int_cmp(gen.PREFIX_TO_INDEX[i][1], prefix)])

\* Ss58AddressFormat::custom
custom(prefix) == [prefix |-> prefix]

\* Ss58AddressFormat::prefix
prefix(x) == x.prefix

\* Ss58AddressFormat::all_names
all_names(gen) == gen.ALL_SS58_ADDRESS_FORMAT_NAMES

\* Ss58AddressFormat::all
all(gen) == gen.ALL_SS58_ADDRESS_FORMATS

\* from_known_address_format: x as u16
from_known_address_format(x) == x.discr

\* impl Display for Ss58AddressFormat
Ss58AddressFormat_fmt(gen, x) ==
    LET lookup == lookup_prefix(gen, x.prefix) IN
    IF lookup.ok
    THEN gen.ALL_SS58_ADDRESS_FORMAT_NAMES[gen.PREFIX_TO_INDEX[lookup.val + 1][2] + 1]
    ELSE to_string(x.prefix)

\* impl From<Ss58AddressFormatRegistry> for Ss58AddressFormat
from_registry(x) == [prefix |-> x.discr]

\* impl From<u16> for Ss58AddressFormat
from_u16(x) == [prefix |-> x]

\* impl TryFrom<&str> for Ss58AddressFormatRegistry
registry_try_from_str(gen, x) ==
    LET names == gen.ALL_SS58_ADDRESS_FORMAT_NAMES
        lookup == binary_search_by([i \in DOMAIN names |->
                                       str_cmp(names[i], x)]) IN
    IF lookup.ok THEN Ok(gen.ALL_SS58_ADDRESS_FORMATS[lookup.val + 1])
    ELSE Err("ParseError")

\* impl TryFrom<&str> for Ss58AddressFormat
try_from_str(gen, x) ==
    LET r == registry_try_from_str(gen, x) IN
    IF r.ok THEN Ok(from_registry(r.val)) ELSE r

\* Mutant: the name at the position found in PREFIX_TO_INDEX, not at the
\* index stored there.
registry_fmt_by_position(gen, x) ==
    LET lookup == lookup_prefix(gen, from_known_address_format(x)) IN
    IF lookup.ok
    THEN Ok(gen.ALL_SS58_ADDRESS_FORMAT_NAMES[lookup.val + 1])
    ELSE Err("panic: always be found")

\* impl Display for Ss58AddressFormatRegistry; expect() panics on a miss.
registry_fmt(gen, x) ==
    LET lookup == lookup_prefix(gen, from_known_address_format(x)) IN
    IF lookup.ok
    THEN Ok(gen.ALL_SS58_ADDRESS_FORMAT_NAMES[gen.PREFIX_TO_INDEX[lookup.val + 1][2] + 1])
    ELSE Err("panic: always be found")

\* Mutant: the variant at the position found in PREFIX_TO_INDEX, not at the
\* index stored there.
registry_try_from_by_position(gen, x) ==
    LET lookup == lookup_prefix(gen, prefix(x)) IN
    IF lookup.ok
    THEN Ok(gen.ALL_SS58_ADDRESS_FORMATS[lookup.val + 1])
    ELSE Err("ParseError")

\* impl TryFrom<Ss58AddressFormat> for Ss58AddressFormatRegistry
registry_try_from(gen, x) ==
    LET lookup == lookup_prefix(gen, prefix(x)) IN
    IF lookup.ok
    THEN Ok(gen.ALL_SS58_ADDRESS_FORMATS[gen.PREFIX_TO_INDEX[lookup.val + 1][2] + 1])
    ELSE Err("ParseError")


\* --------------------------------------- src/lib.rs (the former proc-macro)
\* Its AccountType has optional network, symbols and decimals.

macro_AccountType(r) ==
    [prefix |-> r.prefix, network |-> <<r.network>>,
     standard_account |-> r.standard_account,
     symbols |-> <<r.symbols>>, decimals |-> <<r.decimals>>]

\* The body of the loop of the macro's Registry::is_valid.
macro_account_type_failure(account_type) ==
    IF /\ account_type.network # <<>>
       /\ \E k \in DOMAIN account_type.network[1] :
              is_whitespace(account_type.network[1][k])
        THEN "WhitespaceInNetwork"
    ELSE IF /\ account_type.symbols # <<>>
            /\ \/ account_type.decimals = <<>>
               \/ Len(account_type.symbols[1]) # Len(account_type.decimals[1])
        THEN "SymbolDecimalMismatch"
    ELSE IF account_type.symbols = <<>> /\ account_type.decimals # <<>>
        THEN "DecimalsWithoutSymbols"
    ELSE IF /\ account_type.standard_account # <<>>
            /\ account_type.standard_account[1] \notin SigTypes
        THEN "UnknownSignatureKind"
    ELSE "none"

\* The per-record loop of the macro's Registry::is_valid from record i on.
RECURSIVE macro_is_valid_loop(_, _)
macro_is_valid_loop(registry, i) ==
    IF i > Len(registry) THEN Ok(<<>>)
    ELSE LET kind == macro_account_type_failure(registry[i]) IN
        IF kind # "none" THEN Failure(kind, i)
        ELSE macro_is_valid_loop(registry, i + 1)

\* Registry::is_valid of the macro: the two uniqueness checks name no record.
macro_is_valid(registry) ==
    LET unique_ids == {registry[i].prefix : i \in DOMAIN registry}
        unreserved == {i \in DOMAIN registry : registry[i].network # <<>>}
        unique_networks == {registry[i].network[1] : i \in unreserved} IN
    IF Cardinality(unique_ids) # Len(registry)
        THEN Failure("DuplicatePrefix", 0)
    ELSE IF Cardinality(unique_networks) # Cardinality(unreserved)
        THEN Failure("DuplicateNetwork", 0)
    ELSE macro_is_valid_loop(registry, 1)

\* ----------------------------------------------------------- u128 values
\* A u128 is the sequence of its decimal digits, the most significant first,
\* without leading zeros (zero is <<0>>): TLC's integers are too narrow.

Zero == <<0>>
One == <<1>>
Thousand == <<1, 0, 0, 0>>
\* u128::MAX = 2^128 - 1, and 2^128
U128_MAX ==
    <<3,4,0, 2,8,2, 3,6,6, 9,2,0, 9,3,8, 4,6,3, 4,6,3, 3,7,4, 6,0,7, 4,3,1,
      7,6,8, 2,1,1, 4,5,5>>
TWO_POW_128 ==
    <<3,4,0, 2,8,2, 3,6,6, 9,2,0, 9,3,8, 4,6,3, 4,6,3, 3,7,4, 6,0,7, 4,3,1,
      7,6,8, 2,1,1, 4,5,6>>

RECURSIVE big_norm(_)
big_norm(a) ==
    IF Len(a) > 1 /\ Head(a) = 0 THEN big_norm(Tail(a))
    ELSE IF a = <<>> THEN Zero ELSE a

RECURSIVE big_cmp_digits(_, _)
big_cmp_digits(a, b) ==
    IF a = <<>> THEN "Equal"
    ELSE IF Head(a) < Head(b) THEN "Less"
    ELSE IF Head(a) > Head(b) THEN "Greater"
    ELSE big_cmp_digits(Tail(a), Tail(b))

big_cmp(a, b) ==
    IF Len(a) < Len(b) THEN "Less"
    ELSE IF Len(a) > Len(b) THEN "Greater"
    ELSE big_cmp_digits(a, b)

\* a - b for a >= b: column by column from the right, with the borrow.
big_sub(a, b) ==
    LET digit_b(k) == IF k <= Len(b) THEN b[Len(b) - k + 1] ELSE 0
        RECURSIVE column(_, _)
        column(k, borrow) ==
            IF k > Len(a) THEN <<>>
            ELSE LET d == a[Len(a) - k + 1] - digit_b(k) - borrow IN
                 IF d < 0 THEN Append(column(k + 1, 1), d + 10)
                 ELSE Append(column(k + 1, 0), d)
    IN big_norm(column(1, 0))

\* a * 10
big_mul10(a) == IF a = Zero THEN Zero ELSE Append(a, 0)

\* The quotient and remainder of a by b # 0: long division.
big_divmod(a, b) ==
    LET RECURSIVE times(_, _)
        \* how often b goes into r, and what is left
        times(r, n) ==
            IF big_cmp(r, b) = "Less" THEN [q |-> n, r |-> r]
            ELSE times(big_sub(r, b), n + 1)
        RECURSIVE step(_, _, _)
        step(k, quotient, rem) ==
            IF k > Len(a) THEN [q |-> big_norm(quotient), r |-> rem]
            ELSE LET t == times(big_norm(Append(rem, a[k])), 0) IN
                 step(k + 1, Append(quotient, t.q), t.r)
    IN step(1, <<>>, Zero)

\* a / b and a % b of u128: a panic when b is zero.
big_div(a, b) ==
    IF b = Zero THEN Err("panic: attempt to divide by zero")
    ELSE Ok(big_divmod(a, b).q)
big_rem(a, b) ==
    IF b = Zero
    THEN Err("panic: attempt to calculate the remainder with a divisor of zero")
    ELSE Ok(big_divmod(a, b).r)

\* u128::pow(10, exp).  With overflow checks (a debug build) an overflow
\* panics; without (a release build) the product wraps modulo 2^128.
RECURSIVE pow10(_, _)
pow10(exp, overflow_checks) ==
    IF exp = 0 THEN Ok(One)
    ELSE LET below == pow10(exp - 1, overflow_checks) IN
         IF ~below.ok THEN below
         ELSE LET product == big_mul10(below.val) IN
              IF big_cmp(product, U128_MAX) # "Greater" THEN Ok(product)
              ELSE IF overflow_checks
                   THEN Err("panic: attempt to multiply with overflow")
              ELSE Ok(big_divmod(product, TWO_POW_128).r)

\* The digits of a u128 as text (Display for u128).
big_to_string(a) == [i \in DOMAIN a |-> Digits[a[i] + 1]]

\* ---------------------------------------------------------------- token.rs

\* num_format's to_formatted_string under CustomFormat with separator "_"
\* (standard grouping): the digits in groups of three from the right.
RECURSIVE to_formatted_string(_)
to_formatted_string(text) ==
    IF Len(text) <= 3 THEN text
    ELSE to_formatted_string(SubSeq(text, 1, Len(text) - 3))
            \o <<"_">> \o SubSeq(text, Len(text) - 2, Len(text))

\* {:0>3}: right-aligned in a width of at least 3, filled with '0'.
RECURSIVE pad3(_)
pad3(text) == IF Len(text) >= 3 THEN text ELSE pad3(<<"0">> \o text)

\* The three arguments of both write! calls, or the panic of the first that
\* panics: multiplier, amount / multiplier, amount % multiplier / (multiplier
\* / 1000).
token_parts(token, overflow_checks) ==
    LET multiplier == pow10(token.decimals, overflow_checks) IN
    IF ~multiplier.ok THEN multiplier
    ELSE LET integer == big_div(token.amount, multiplier.val)
             rest == big_rem(token.amount, multiplier.val)
             unit == big_div(multiplier.val, Thousand) IN
         IF ~integer.ok THEN integer
         ELSE IF ~rest.ok THEN rest
         ELSE LET fraction == big_div(rest.val, unit.val) IN
              IF ~fraction.ok THEN fraction
              ELSE Ok([integer |-> integer.val, fraction |-> fraction.val])

\* impl Display for Token
Token_fmt(token, overflow_checks) ==
    LET parts == token_parts(token, overflow_checks) IN
    IF ~parts.ok THEN parts
    ELSE Ok(to_formatted_string(big_to_string(parts.val.integer))
            \o <<",">> \o pad3(big_to_string(parts.val.fraction))
            \o <<" ">> \o token.name)

\* impl Debug for Token
Token_debug_fmt(token, overflow_checks) ==
    LET parts == token_parts(token, overflow_checks) IN
    IF ~parts.ok THEN parts
    ELSE Ok(big_to_string(parts.val.integer)
            \o <<",">> \o pad3(big_to_string(parts.val.fraction))
            \o <<" ">> \o token.name
            \o <<" ", "(">> \o to_formatted_string(big_to_string(token.amount))
            \o <<")">>)

\* TokenRegistry::create_token, on the variant's attributes (name, decimals)
create_token(attributes, amount) ==
    [name |-> attributes[1], decimals |-> attributes[2], amount |-> amount]


\* -------------------------------------------------------------- the state

VARIABLES
    json,       \* the input file ss58-registry.json
    pc,         \* where main is: Parse, Validate, Derive, Emit, Done, Failed
    registry,   \* the parsed Registry, once parsed
    error,      \* Some(failure) once the build has failed
    generated,  \* Some(token stream) once create_ss58_registry has returned
    out_file,   \* Some(contents) once the generated file is written
    call        \* the last call of the compiled crate: op, arg, ret

vars == <<json, pc, registry, error, generated, out_file, call>>

NoCall == [op |-> "none", arg |-> <<>>, ret |-> <<>>]

Init ==
    /\ json \in Documents
    /\ pc = "Parse"
    /\ registry = <<>>
    /\ error = <<>>
    /\ generated = <<>>
    /\ out_file = <<>>
    /\ call = NoCall

\* ----------------------------------------------- the build script's steps

\* Mutant: a file that does not parse is taken for the empty registry.
Parse_recovering ==
    /\ pc = "Parse"
    /\ registry' = json.registry
    /\ pc' = "Validate"
    /\ error' = error
    /\ UNCHANGED <<json, generated, out_file, call>>

\* serde_json::from_str(json).expect("valid json file")
Parse ==
    /\ pc = "Parse"
    /\ IF json.valid
       THEN /\ registry' = json.registry
            /\ pc' = "Validate"
            /\ error' = error
       ELSE /\ registry' = registry
            /\ pc' = "Failed"
            /\ error' = <<[kind |-> "JsonParse", at |-> 0]>>
    /\ UNCHANGED <<json, generated, out_file, call>>

\* registry.is_valid()?
Validate ==
    /\ pc = "Validate"
    /\ LET result == is_valid(registry) IN
       IF result.ok
       THEN pc' = "Derive" /\ error' = error
       ELSE pc' = "Failed" /\ error' = <<result.err>>
    /\ UNCHANGED <<json, registry, generated, out_file, call>>

\* The rest of create_ss58_registry: the template's variables.  The tables of
\* registry_gen.rs are derived from the same validated registry.
Derive ==
    /\ pc = "Derive"
    /\ generated' = <<[account_type_enum |-> create_ss58_registry(registry),
                       registry_gen |-> registry_gen(registry)]>>
    /\ pc' = "Emit"
    /\ UNCHANGED <<json, registry, error, out_file, call>>

\* fs::write(&dest_path, result).unwrap(): the write succeeds or main panics.
Emit ==
    /\ pc = "Emit"
    /\ \E written \in BOOLEAN :
        IF written
        THEN out_file' = generated /\ pc' = "Done" /\ error' = error
        ELSE out_file' = out_file /\ pc' = "Failed"
             /\ error' = <<[kind |-> "IoWrite", at |-> 0]>>
    /\ UNCHANGED <<json, registry, generated, call>>

\* ss58_registry!(): the macro's validation of the same document.
MacroIsValid ==
    /\ pc \in {"Done", "Failed"}
    /\ json.valid
    /\ call = NoCall
    /\ call' = [op |-> "macro_is_valid", arg |-> json.registry,
                ret |-> macro_is_valid([i \in DOMAIN json.registry |->
                                            macro_AccountType(json.registry[i])])]
    /\ UNCHANGED <<json, pc, registry, error, generated, out_file>>


\* ------------------------------------------- calls of the compiled crate

\* The u16 values and the strings the calls are made with.
CallPrefixes == RegistryPrefixes \cup {100, 16384, 16385, 20000, 65535}
CallStrings ==
    Networks \cup {to_string(p) : p \in CallPrefixes}
             \cup { to_string(65536), <<"+", "1">>, <<"0", "0", "1">>,
                    <<"-", "1">>, <<"1", "a">>, <<"b">>, <<"+">> }

Range(s) == {s[i] : i \in DOMAIN s}

\* The compiled crate exists once the generated file is written.
Built == pc = "Done"
account_type_enum == out_file[1].account_type_enum
tables == out_file[1].registry_gen

\* The calls are pure: the model observes one call of the built crate.
Returns(op, arg, ret) ==
    /\ call = NoCall
    /\ call' = [op |-> op, arg |-> arg, ret |-> ret]
    /\ UNCHANGED <<json, pc, registry, error, generated, out_file>>

\* The values of the generated enum: every variant, every Custom(n).
EnumValues ==
    Range(enum_all(account_type_enum)) \cup {Custom(n) : n \in CallPrefixes}

EnumFromU16 ==
    /\ Built
    /\ \E x \in CallPrefixes :
        Returns("enum_from_u16", x, enum_from_u16(account_type_enum, x))

EnumTryFromStr ==
    /\ Built
    /\ \E x \in CallStrings :
        Returns("enum_try_from_str", x, enum_try_from_str(account_type_enum, x))

EnumIsCustom ==
    /\ Built
    /\ \E x \in EnumValues :
        Returns("enum_is_custom", x, enum_is_custom(account_type_enum, x))

EnumIsReserved ==
    /\ Built
    /\ \E x \in EnumValues :
        Returns("enum_is_reserved", x, enum_is_reserved(account_type_enum, x))

EnumFmt ==
    /\ Built
    /\ \E x \in EnumValues :
        Returns("enum_fmt", x, enum_fmt(account_type_enum, x))

EnumFromAddressFormat ==
    /\ Built
    /\ \E x \in EnumValues :
        Returns("enum_from_address_format", x,
                enum_from_address_format(account_type_enum, x))

\* The values of the struct Ss58AddressFormat, however constructed.
FormatValues ==
    {custom(p) : p \in CallPrefixes} \cup {from_u16(p) : p \in CallPrefixes}
        \cup {from_registry(v) : v \in Range(all(tables))}

CallCustom ==
    /\ Built
    /\ \E p \in CallPrefixes : Returns("custom", p, custom(p))

CallFromRegistry ==
    /\ Built
    /\ \E v \in Range(all(tables)) : Returns("from_registry", v, from_registry(v))

CallFmt ==
    /\ Built
    /\ \E x \in FormatValues : Returns("fmt", x, Ss58AddressFormat_fmt(tables, x))

CallTryFromStr ==
    /\ Built
    /\ \E x \in CallStrings : Returns("try_from_str", x, try_from_str(tables, x))

CallRegistryTryFromStr ==
    /\ Built
    /\ \E x \in CallStrings :
        Returns("registry_try_from_str", x, registry_try_from_str(tables, x))

CallRegistryFmt ==
    /\ Built
    /\ \E v \in Range(all(tables)) :
        Returns("registry_fmt", v, registry_fmt(tables, v))

CallRegistryTryFrom ==
    /\ Built
    /\ \E x \in FormatValues :
        Returns("registry_try_from", x, registry_try_from(tables, x))

Next ==
    \/ Parse \/ Validate \/ Derive \/ Emit \/ MacroIsValid
    \/ EnumFromU16 \/ EnumTryFromStr \/ EnumIsCustom \/ EnumIsReserved
    \/ EnumFmt \/ EnumFromAddressFormat
    \/ CallCustom \/ CallFromRegistry \/ CallFmt \/ CallTryFromStr
    \/ CallRegistryTryFromStr \/ CallRegistryFmt \/ CallRegistryTryFrom

Spec == Init /\ [][Next]_vars


\* ------------------------------------------------------- calls on tokens

\* The documents of the token specification: the one-record registry of
\* the crate's doc tests (DOT with 10 decimals), and a malformed file.
TokenDocuments ==
    { Malformed,
      [valid |-> TRUE,
       registry |-> << [prefix |-> 0, network |-> <<"a", "-", "b">>,
                        standard_account |-> <<"Sr25519">>,
                        symbols |-> <<DOT>>, decimals |-> <<10>>] >>] }

InitToken ==
    /\ json \in TokenDocuments
    /\ pc = "Parse"
    /\ registry = <<>>
    /\ error = <<>>
    /\ generated = <<>>
    /\ out_file = <<>>
    /\ call = NoCall

\* Token.decimals is a u8; the model draws it from 0..MaxDecimals, which
\* has the values below 3, the values up to 38 and the values from 39 on.
TokenDecimals == 0 .. MaxDecimals

\* Token.amount is a u128.
TokenAmounts ==
    { Zero, One, <<1, 5, 0>>, <<9, 9, 9>>, Thousand,
      <<1, 2, 3, 4, 5, 6, 7>>,
      <<1, 0, 0, 0, 0, 0, 0, 0, 0>>,
      <<1, 0, 0, 0, 0, 0, 0, 0, 0, 0, 0, 0>>,
      <<9, 8, 7, 6, 5, 4, 3, 2, 1, 0, 1, 2, 3, 4, 5>>,
      U128_MAX }

\* Token is a public struct with public fields: any value can be built.
Tokens == [name : {DOT}, decimals : TokenDecimals, amount : TokenAmounts]

\* TokenRegistry::attributes of the variants: the (symbol, decimals) pairs
\* of the records.
token_attributes(records) ==
    { <<records[i].symbols[k], records[i].decimals[k]>> :
        <<i, k>> \in { x \in (DOMAIN records) \X (1 .. 2) :
                        /\ x[2] <= Len(records[x[1]].symbols)
                        /\ x[2] <= Len(records[x[1]].decimals) } }

\* format!("{}", token), in a build with or without overflow checks
TokenFmt ==
    /\ Built
    /\ \E token \in Tokens, overflow_checks \in BOOLEAN :
          Returns("Token_fmt",
                  [token |-> token, overflow_checks |-> overflow_checks],
                  Token_fmt(token, overflow_checks))

\* format!("{:?}", token)
TokenDebugFmt ==
    /\ Built
    /\ \E token \in Tokens, overflow_checks \in BOOLEAN :
          Returns("Token_debug_fmt",
                  [token |-> token, overflow_checks |-> overflow_checks],
                  Token_debug_fmt(token, overflow_checks))

\* format!("{}", variant.create_token(amount))
CreateTokenFmt ==
    /\ Built
    /\ \E attributes \in token_attributes(registry), amount \in TokenAmounts,
          overflow_checks \in BOOLEAN :
          Returns("create_token_fmt",
                  [token |-> create_token(attributes, amount),
                   overflow_checks |-> overflow_checks],
                  Token_fmt(create_token(attributes, amount), overflow_checks))

NextToken ==
    \/ Parse \/ Validate \/ Derive \/ Emit
    \/ TokenFmt \/ TokenDebugFmt \/ CreateTokenFmt

SpecToken == InitToken /\ [][NextToken]_vars

\* ------------------------------------------- the generated token tables
\* and prefix runs, on documents with several tokens and many prefixes

\* The symbols and decimals of a record: none, one token, two tokens in
\* either order, the same symbol with other decimals, and a mismatch.
TokenChoices ==
    { <<<<>>, <<>>>>, <<<<DOT>>, <<10>>>>, <<<<DOT>>, <<12>>>>,
      <<<<KSM>>, <<12>>>>, <<<<DOT, KSM>>, <<10, 12>>>>,
      <<<<KSM, DOT>>, <<12, 10>>>>, <<<<DOT>>, <<>>>> }

\* Record k of a token document: prefix k - 1, and networks that descend
\* with k, so that the order by network is not the document's.
TokenRecords(k) ==
    { [prefix |-> k - 1, network |-> <<"n">> \o to_string(9 - k),
       standard_account |-> sa, symbols |-> c[1], decimals |-> c[2]] :
        sa \in {<<>>, <<"Sr25519">>}, c \in TokenChoices }

TokenTableDocuments ==
    UNION { { [valid |-> TRUE, registry |-> r] :
                r \in { q \in [1 .. n -> UNION { TokenRecords(k) : k \in 1 .. n }] :
                          \A k \in 1 .. n : q[k] \in TokenRecords(k) } } :
            n \in 1 .. MaxTokenRecords }

\* The prefixes of the run documents, in descending order.
RunPrefixes == <<65535, 65534, 10, 8, 7, 3, 2, 1, 0>>

\* One document for every set of these prefixes: a record per prefix, named
\* after it, the records in descending order of prefix.
RunDocuments ==
    { [valid |-> TRUE,
       registry |->
          LET chosen == { i \in DOMAIN RunPrefixes : RunPrefixes[i] \in P }
              Nth(k) == CHOOSE i \in chosen :
                            Cardinality({ j \in chosen : j < i }) = k - 1
          IN [k \in 1 .. Cardinality(chosen) |->
                [prefix |-> RunPrefixes[Nth(k)],
                 network |-> <<"p">> \o to_string(RunPrefixes[Nth(k)]),
                 standard_account |-> <<"Sr25519">>,
                 symbols |-> <<>>, decimals |-> <<>>]]] :
      P \in SUBSET { RunPrefixes[i] : i \in DOMAIN RunPrefixes } }

InitTables ==
    /\ json \in TokenTableDocuments \cup RunDocuments \cup {Malformed}
    /\ pc = "Parse"
    /\ registry = <<>>
    /\ error = <<>>
    /\ generated = <<>>
    /\ out_file = <<>>
    /\ call = NoCall

\* variant.tokens()
CallTokens ==
    /\ Built
    /\ \E x \in Range(all(tables)) :
          Returns("tokens", x, tokens(tables, x))

\* token.attributes(), for every variant of TokenRegistry
CallAttributes ==
    /\ Built
    /\ \E i \in DOMAIN tables.TOKEN_ATTRIBUTES :
          Returns("attributes", [token |-> i - 1],
                  TokenRegistry_attributes(tables, [token |-> i - 1]))

NextTables ==
    \/ Parse \/ Validate \/ Derive \/ Emit
    \/ CallTokens \/ CallAttributes

SpecTables == InitTables /\ [][NextTables]_vars

\* ------------------------------------------------------------ the claims

\* What the claims say of a document, read off the records themselves.
RegisteredPrefixes == {registry[i].prefix : i \in DOMAIN registry}
ReservedPrefixes ==
    {registry[i].prefix : i \in {k \in DOMAIN registry :
                                    registry[k].standard_account = <<>>}}
RegisteredNames == {registry[i].network : i \in DOMAIN registry}

\* The validator has returned: the document was rejected, or accepted.
Rejected ==
    pc = "Failed" /\ error[1].kind \notin {"JsonParse", "IoWrite"}
Accepted ==
    pc \in {"Derive", "Emit", "Done"} \/ (pc = "Failed" /\ error[1].kind = "IoWrite")

C2_NumericFallback ==
    (Built /\ call.op = "try_from_str" /\ call.arg \notin RegisteredNames)
    => /\ parse_u16(call.arg).ok
            => call.ret = Ok(custom(parse_u16(call.arg).val))
       /\ ~call.ret.ok => ~parse_u16(call.arg).ok

\* C3: is_reserved() of a value carrying prefix p, however it was built, is
\* true iff p > 16384 or p is the prefix of a record without standard_account.
C3_IsReserved ==
    (Built /\ call.op = "enum_is_reserved")
    => LET p == enum_from_address_format(account_type_enum, call.arg) IN
       call.ret <=> (p > 16384 \/ p \in ReservedPrefixes)

\* C4: is_custom() of a value carrying prefix p, however it was built, is true
\* iff p is the prefix of no record of the compiled registry.
C4_IsCustom ==
    (Built /\ call.op = "enum_is_custom")
    => LET p == enum_from_address_format(account_type_enum, call.arg) IN
       call.ret <=> p \notin RegisteredPrefixes

\* C5: Ss58AddressFormatRegistry::try_from(Ss58AddressFormat with prefix p) is
\* Ok(the variant whose prefix is p) when a record has prefix p and ParseError
\* otherwise; so try_from(from(v)) = Ok(v) for every variant v.
C5_RegistryTryFrom ==
    /\ (Built /\ call.op = "registry_try_from")
        => IF call.arg.prefix \in RegisteredPrefixes
           THEN call.ret = Ok([discr |-> call.arg.prefix])
           ELSE call.ret = Err("ParseError")
    /\ (Built /\ call.op = "from_registry")
        => registry_try_from(tables, call.ret) = Ok(call.arg)

\* C5's case: the prefix order against the name order, the prefix looked up
\* the one whose PREFIX_TO_INDEX position differs from its index.
C5_Witness ==
    /\ Built /\ call.op = "registry_try_from"
    /\ Len(registry) = 2
    /\ str_cmp(registry[1].network, registry[2].network) = "Less"
    /\ registry[1].prefix > registry[2].prefix
    /\ call.arg = from_registry([discr |-> registry[1].prefix])
    /\ call.ret.ok


\* What the validation claims say of a document d.
Validated == json.valid /\ (Accepted \/ Rejected)
MacroValidated == call.op = "macro_is_valid"
Min(S) == CHOOSE i \in S : \A j \in S : i <= j
RepeatedPrefixes(d) ==
    {j \in DOMAIN d : \E i \in 1..(j - 1) : d[i].prefix = d[j].prefix}
RepeatedNetworks(d) ==
    {j \in DOMAIN d : \E i \in 1..(j - 1) : d[i].network = d[j].network}
RepeatedIdentifiers(d) ==
    {j \in DOMAIN d : \E i \in 1..(j - 1) :
        AccountType_name(d[i]) = AccountType_name(d[j])}
EmptyNetworks(d) == {j \in DOMAIN d : d[j].network = <<>>}
WhitespaceNetworks(d) ==
    {j \in DOMAIN d : \E k \in DOMAIN d[j].network : d[j].network[k] = " "}
Mismatches(d) == {j \in DOMAIN d : Len(d[j].symbols) # Len(d[j].decimals)}

\* C6, as stated: a document with a repeated prefix fails, and the failure is
\* raised at the first record whose prefix was already seen.
C6_AsStated ==
    (Validated /\ RepeatedPrefixes(json.registry) # {})
    => /\ Rejected
       /\ error[1].at = Min(RepeatedPrefixes(json.registry))

\* C6, amended: both validators reject every document with a repeated prefix,
\* so an accepted document has pairwise distinct prefixes.  build.rs fails no
\* later than the first record whose prefix was already seen; the failure is
\* DuplicatePrefix exactly when it is raised at that record, which it is when
\* the records before it are valid.  The macro reports DuplicatePrefix and
\* names no record.
C6_DuplicatePrefix ==
    /\ (Validated /\ RepeatedPrefixes(json.registry) # {})
        => LET first == Min(RepeatedPrefixes(json.registry)) IN
           /\ Rejected
           /\ error[1].at <= first
           /\ error[1].kind = "DuplicatePrefix" <=> error[1].at = first
           /\ is_valid(SubSeq(json.registry, 1, first - 1)).ok
                => error[1].at = first
    /\ (Validated /\ Rejected /\ error[1].kind = "DuplicatePrefix")
        => RepeatedPrefixes(json.registry) # {}
    /\ (MacroValidated /\ RepeatedPrefixes(call.arg) # {})
        => call.ret = Failure("DuplicatePrefix", 0)
    /\ (MacroValidated /\ call.ret.ok) => RepeatedPrefixes(call.arg) = {}

\* C6's case: the repeated prefix is raised at the second record, and, in
\* another document, a failure of the first record comes before it.
C6_Witness ==
    /\ Validated /\ Rejected
    /\ Len(json.registry) = 2
    /\ RepeatedPrefixes(json.registry) = {2}
    /\ error[1] = [kind |-> "DuplicatePrefix", at |-> 2]

\* C7: validation fails whenever two records derive the same identifier, also
\* when their network strings differ: the identifiers of an accepted document
\* are pairwise distinct.
C7_DuplicateIdentifier ==
    (Validated /\ RepeatedIdentifiers(json.registry) # {}) => Rejected

\* C8: validation fails for every document with a record whose network is the
\* empty string: no accepted document has one.
C8_EmptyNetwork ==
    /\ (Validated /\ EmptyNetworks(json.registry) # {}) => Rejected
    /\ (MacroValidated /\ EmptyNetworks(call.arg) # {}) => ~call.ret.ok

\* C9, as stated: a document with a record whose symbols and decimals differ
\* in length fails with SymbolDecimalMismatch.
C9_AsStated ==
    (Validated /\ Mismatches(json.registry) # {})
    => /\ Rejected
       /\ error[1].kind = "SymbolDecimalMismatch"

\* C9, amended: both validators reject every document with a record whose
\* symbols and decimals differ in length, no later than at the first such
\* record, so the records of an accepted document have equally long symbols
\* and decimals.  The failure is SymbolDecimalMismatch when it is raised at
\* that record and none of the checks made before (repeated prefix, repeated
\* network, whitespace in the network) fails; build.rs raises it there when
\* the records before it are valid.
C9_SymbolDecimalMismatch ==
    /\ (Validated /\ Mismatches(json.registry) # {})
        => LET d == json.registry
               first == Min(Mismatches(d)) IN
           /\ Rejected
           /\ error[1].at <= first
           /\ error[1].kind = "SymbolDecimalMismatch" => error[1].at = first
           /\ (/\ error[1].at = first
               /\ first \notin RepeatedPrefixes(d) \cup RepeatedNetworks(d)
                                \cup WhitespaceNetworks(d))
                => error[1].kind = "SymbolDecimalMismatch"
           /\ is_valid(SubSeq(d, 1, first - 1)).ok => error[1].at = first
    /\ (MacroValidated /\ Mismatches(call.arg) # {})
        => LET first == Min(Mismatches(call.arg)) IN
           /\ ~call.ret.ok
           /\ call.ret.err.at <= first
           /\ call.ret.err.kind = "SymbolDecimalMismatch" => call.ret.err.at = first
           /\ (/\ call.ret.err.at = first
               /\ first \notin WhitespaceNetworks(call.arg))
                => call.ret.err.kind = "SymbolDecimalMismatch"
    /\ (MacroValidated /\ call.ret.ok) => Mismatches(call.arg) = {}

\* C9's case: the second record alone has one symbol and no decimals.
C9_Witness ==
    /\ Validated /\ Rejected
    /\ Len(json.registry) = 2
    /\ Mismatches(json.registry) = {2}
    /\ error[1] = [kind |-> "SymbolDecimalMismatch", at |-> 2]

\* What the text promises for a token: amount div 10^decimals grouped by
\* '_', a comma, the first three decimal digits of the fractional part,
\* a space and the name.  Computed on the decimal digits of the amount.
ExpectedDisplay(token) ==
    LET a == token.amount
        d == token.decimals
        padded == IF Len(a) > d THEN a
                  ELSE [i \in 1 .. (d + 1 - Len(a)) |-> 0] \o a
        integer == SubSeq(padded, 1, Len(padded) - d)
        fraction == SubSeq(SubSeq(padded, Len(padded) - d + 1, Len(padded))
                             \o <<0, 0, 0>>, 1, 3)
        n == Len(integer)
        RECURSIVE grouped(_)
        grouped(i) ==
            IF i > n THEN <<>>
            ELSE (IF i > 1 /\ (n - i + 1) % 3 = 0 THEN <<"_">> ELSE <<>>)
                    \o <<Digits[integer[i] + 1]>> \o grouped(i + 1)
    IN grouped(1) \o <<",">> \o big_to_string(fraction)
          \o <<" ">> \o token.name

\* C10: for every Token, of any decimals and any amount, the Display form
\* is "{integer},{fraction} {name}" with integer = amount div 10^decimals
\* grouped by '_' and fraction the first three decimal digits of the
\* fractional part, zero-padded to width 3.
C10_TokenDisplay ==
    call.op \in {"Token_fmt", "create_token_fmt"}
    => call.ret = Ok(ExpectedDisplay(call.arg.token))

\* The record of the compiled registry that a variant was generated from.
RecordOf(x) == CHOOSE r \in Range(registry) : r.prefix = x.discr

\* C11: for every accepted record r, tokens() of r's variant has the length
\* of r.symbols and its i-th element is the TokenRegistry variant whose
\* attributes() are (r.symbols[i], r.decimals[i]), in declaration order; the
\* same pair, in whichever records, is the same variant, and pairs that
\* differ in symbol or in decimals are distinct variants.
C11_Tokens ==
    /\ (Built /\ call.op = "tokens")
        => LET r == RecordOf(call.arg) IN
           /\ Len(call.ret) = Len(r.symbols)
           /\ \A i \in DOMAIN call.ret :
                TokenRegistry_attributes(tables, call.ret[i])
                    = <<r.symbols[i], r.decimals[i]>>
    /\ Built
        => \A r, q \in Range(registry) :
             \A i \in DOMAIN r.symbols, j \in DOMAIN q.symbols :
                (tokens(tables, Variant(r))[i] = tokens(tables, Variant(q))[j])
                <=> (/\ r.symbols[i] = q.symbols[j]
                     /\ r.decimals[i] = q.decimals[j])

\* C11's case: a record with two tokens, another with the first symbol and
\* other decimals; tokens() of the first is asked.
C11_Witness ==
    /\ Built /\ call.op = "tokens"
    /\ Len(registry) = 2
    /\ registry[1].symbols = <<DOT, KSM>> /\ registry[1].decimals = <<10, 12>>
    /\ registry[2].symbols = <<DOT>> /\ registry[2].decimals = <<12>>
    /\ call.arg = Variant(registry[1])
    /\ Len(call.ret) = 2
    /\ call.ret[1] # tokens(tables, Variant(registry[2]))[1]

\* C12: in every accepted document, tokens() of the variant of a reserved
\* record (one without standard_account) is empty.
C12_ReservedNoTokens ==
    (Built /\ call.op = "tokens" /\ AccountType_is_reserved(RecordOf(call.arg)))
    => call.ret = <<>>

\* The tables that create_ss58_registry emits, in the shape the lookups of
\* address_format.rs read: ALL_FORMATS and ALL_NAMES.
EmittedNames == enum_all_names(account_type_enum)
EmittedFormats ==
    [i \in DOMAIN account_type_enum.number |->
        [discr |-> account_type_enum.number[i]]]

\* C13: for every accepted document, in whatever order its records are, the
\* emitted name table (and with it the list of variants) is sorted ascending
\* by the network string, so that the binary search by name finds every
\* registered name.
C13_NamesSorted ==
    Built
    => /\ \A i, j \in DOMAIN EmittedNames :
            i < j => str_cmp(EmittedNames[i], EmittedNames[j]) # "Greater"
       /\ \A i \in DOMAIN EmittedNames :
            registry_try_from_str(
                [ALL_SS58_ADDRESS_FORMAT_NAMES |-> EmittedNames,
                 ALL_SS58_ADDRESS_FORMATS |-> EmittedFormats],
                EmittedNames[i]) = Ok(EmittedFormats[i])

\* Index alignment of a list of variants and a list of names: position by
\* position they come from the same record, and every record has a position.
Aligned(formats, names) ==
    /\ Len(formats) = Len(registry) /\ Len(names) = Len(registry)
    /\ \A i \in DOMAIN formats :
          \E r \in Range(registry) :
              r.prefix = formats[i].discr /\ r.network = names[i]
    /\ \A r \in Range(registry) :
          \E i \in DOMAIN formats : r.prefix = formats[i].discr

\* C14: ALL_FORMATS[i] and ALL_NAMES[i] come from the same record for every
\* index i; PREFIX_TO_INDEX is sorted ascending by prefix and has, for every
\* record, exactly one pair (prefix, i) with i the position of the record in
\* ALL_FORMATS, so that its second components are a permutation of 0..N.
C14_IndexAlignment ==
    Built
    => LET formats == all(tables)
           index == tables.PREFIX_TO_INDEX
           N == Len(registry) IN
       /\ Aligned(EmittedFormats, EmittedNames)
       /\ Aligned(formats, all_names(tables))
       /\ Len(index) = N
       /\ \A i, j \in DOMAIN index : i < j => index[i][1] < index[j][1]
       /\ \A r \in Range(registry) :
            Cardinality({ k \in DOMAIN index : index[k][1] = r.prefix }) = 1
       /\ \A k \in DOMAIN index :
            /\ index[k][2] \in 0 .. N - 1
            /\ formats[index[k][2] + 1].discr = index[k][1]
       /\ { index[k][2] : k \in DOMAIN index } = 0 .. N - 1

\* C14's case: two records, compiled, whose order by network (here the
\* document's) is the reverse of their order by prefix.
C14_Witness ==
    /\ Built
    /\ Len(registry) = 2
    /\ tables.PREFIX_TO_INDEX = <<<<registry[2].prefix, 1>>,
                                  <<registry[1].prefix, 0>>>>
    /\ EmittedNames = all_names(tables)
    /\ registry[1].network # <<>> /\ registry[2].network # <<>>

\* The prefixes of the compiled registry.
KnownPrefixes == { r.prefix : r \in Range(registry) }

\* C15: for every sorted list of pairwise distinct prefixes (the empty list,
\* a single element and lists with 65535 included) the run walk yields
\* RUN_STARTS and RUN_ENDS of equal length with RUN_STARTS[k] <= RUN_ENDS[k],
\* the runs ascending and separated by at least one missing prefix, the known
\* prefixes being exactly the union of the runs and every known prefix lying
\* in exactly one run; [1,2,3,7,8,10] gives ([1,7,10],[3,8,10]).
C15_PrefixRuns ==
    Built
    => LET starts == tables.RUN_STARTS
           ends == tables.RUN_ENDS IN
       /\ Len(starts) = Len(ends)
       /\ \A k \in DOMAIN starts : starts[k] <= ends[k]
       /\ \A k \in DOMAIN starts :
            k < Len(starts) => ends[k] + 1 < starts[k + 1]
       /\ \A k \in DOMAIN starts :
            \A p \in starts[k] .. ends[k] : p \in KnownPrefixes
       /\ \A p \in KnownPrefixes :
            Cardinality({ k \in DOMAIN starts :
                            starts[k] <= p /\ p <= ends[k] }) = 1
       /\ KnownPrefixes = {} => starts = <<>> /\ ends = <<>>
       /\ KnownPrefixes = {1, 2, 3, 7, 8, 10}
            => starts = <<1, 7, 10>> /\ ends = <<3, 8, 10>>

\* C15's case: the runs of 1, 2, 3, 7, 8, 10 and 65535.
C15_Witness ==
    /\ Built
    /\ KnownPrefixes = {1, 2, 3, 7, 8, 10, 65535}
    /\ tables.RUN_STARTS = <<1, 7, 10, 65535>>
    /\ tables.RUN_ENDS = <<3, 8, 10, 65535>>

\* The steps of the pipeline in order; a failure is beyond all of them.
Steps == <<"Parse", "Validate", "Derive", "Emit", "Done", "Failed">>
StepNumber(step) == CHOOSE i \in DOMAIN Steps : Steps[i] = step

\* C16: the pipeline moves only forward through Parse, Validate, Derive and
\* Emit; a failure at any step is terminal (no later step runs, nothing
\* recovers), and the generated file is written only in a run in which both
\* parsing and validation succeeded, never after a validation failure.
C16_PipelineLinear ==
    /\ [](pc = "Failed" => out_file = <<>> /\ error # <<>>)
    /\ [](out_file # <<>>
            => json.valid /\ is_valid(json.registry).ok /\ error = <<>>)
    /\ [][/\ pc' # pc
             => \/ pc # "Failed" /\ pc' = "Failed" /\ pc # "Done"
                \/ StepNumber(pc') = StepNumber(pc) + 1 /\ pc' # "Failed"
          /\ pc = "Failed"
             => /\ pc' = "Failed"
                /\ UNCHANGED <<registry, error, generated, out_file>>
          /\ out_file' # out_file => pc = "Emit" /\ pc' = "Done"
          /\ generated' # generated => pc = "Derive" /\ pc' = "Emit"]_vars

\* C16's case: validation has failed, the pipeline stays failed with no file
\* written while the program goes on (the macro validates the document).
C16_Witness ==
    /\ pc = "Failed"
    /\ error # <<>> /\ error[1].kind = "DuplicatePrefix"
    /\ out_file = <<>> /\ generated = <<>>
    /\ call.op = "macro_is_valid"

\* C17: token formatting is total: for every Token the Display and Debug
\* computations complete without arithmetic fault, that is, 10^decimals does
\* not overflow u128 and the divisor multiplier / 1000 is never zero.
C17_TokenFormattingTotal ==
    call.op \in {"Token_fmt", "Token_debug_fmt", "create_token_fmt"}
    => LET multiplier == pow10(call.arg.token.decimals, TRUE) IN
       /\ call.ret.ok
       /\ multiplier.ok
       /\ multiplier.ok => big_div(multiplier.val, Thousand).val # Zero

====
